---- MODULE Spec2Model ----
(***************************************************************************)
(* State-machine model of the objaverse-rendering scripts:                 *)
(*   scripts/blender_script.py       per-asset multi-view camera pipeline  *)
(*   scripts/download_objaverse.py   URL batcher and completion scanner    *)
(*   scripts/subset_lists.py         train/test splitter                   *)
(*   scripts/Discarded/simple_filter.py   catalog filter                   *)
(* The scripts share nothing but files, so the file system `fs` is the     *)
(* common state; each script has a specification of its own.               *)
(***************************************************************************)
EXTENDS Integers, Sequences, FiniteSets, TLC

VARIABLES
    fs,        \* the file system: absolute path -> [kind, data]
    fs0,       \* the file system when the current pipeline invocation began
    args,      \* the parsed command line of the running script
    pc,        \* position of the running script
    i,         \* loop index of the running script
    scene,     \* the host tool's scene: [meshes, cam]
    local_path,\* __main__'s local_path
    out,       \* what the running script has printed so far (this invocation)
    stages,    \* the pipeline stages executed so far (this invocation)
    runs,      \* how many invocations have been started
    given,     \* the command line as it was given (args before the script changes it)
    written,   \* the files the running script has written, in order
    object_paths,   \* the catalog's path table: uid -> relative path
    uids,           \* the catalog's uid list
    sampled_uids,   \* simple_quality_filter's sample
    filtered_uids,  \* the uid list a script is working on
    completed_uids, \* what check_existing_renders returned
    all_uids,       \* the splitter's list
    train_uids,
    test_uids,
    stream          \* the pseudo-random stream random.seed(42) selects

\* What the camera pipeline reads and writes.
renderVars == <<fs, fs0, args, pc, i, scene, local_path, out, stages, runs>>

\* What only the list-processing scripts read and write.
listVars ==
    <<given, written, object_paths, uids, sampled_uids, filtered_uids,
      completed_uids, all_uids, train_uids, test_uids, stream>>

vars == <<renderVars, listVars>>

(***************************************************************************)
(* Bounds of the model.                                                    *)
(***************************************************************************)
MaxRuns == 2
AssetBlocks == 2

(***************************************************************************)
(* Python string and path primitives, on TLC's strings.                    *)
(***************************************************************************)
StartsWith(s, p) == Len(s) >= Len(p) /\ SubSeq(s, 1, Len(p)) = p

EndsWith(s, p) == Len(s) >= Len(p) /\ SubSeq(s, Len(s) - Len(p) + 1, Len(s)) = p

Occurrences(s, t) ==
    {k \in 1..(Len(s) - Len(t) + 1) : SubSeq(s, k, k + Len(t) - 1) = t}

Contains(s, t) == Occurrences(s, t) # {}

FirstIndex(s, t) ==
    LET I == Occurrences(s, t)
    IN  IF I = {} THEN 0 ELSE CHOOSE k \in I : \A j \in I : k <= j

LastIndex(s, t) ==
    LET I == Occurrences(s, t)
    IN  IF I = {} THEN 0 ELSE CHOOSE k \in I : \A j \in I : k >= j

\* s.split(sep)[0]
SplitFirst(s, sep) ==
    IF FirstIndex(s, sep) = 0 THEN s ELSE SubSeq(s, 1, FirstIndex(s, sep) - 1)

\* s.split(sep)[-1]
SplitLast(s, sep) ==
    IF LastIndex(s, sep) = 0 THEN s
    ELSE SubSeq(s, LastIndex(s, sep) + Len(sep), Len(s))

\* os.path.basename
Basename(p) == SplitLast(p, "/")

\* os.path.dirname
Dirname(p) ==
    IF LastIndex(p, "/") = 0 THEN "" ELSE SubSeq(p, 1, LastIndex(p, "/") - 1)

\* os.path.join of two components
Join(a, b) ==
    IF StartsWith(b, "/") \/ a = "" THEN b
    ELSE IF EndsWith(a, "/") THEN a \o b
    ELSE a \o "/" \o b

\* f"{n:03d}" for n >= 0
Fmt03(n) ==
    IF n < 10 THEN "00" \o ToString(n)
    ELSE IF n < 100 THEN "0" \o ToString(n)
    ELSE ToString(n)

\* The working directory of every script.
CWD == "/w"

RECURSIVE StripDot(_)
StripDot(p) == IF StartsWith(p, "./") THEN StripDot(SubSeq(p, 3, Len(p))) ELSE p

\* os.path.abspath, which is also how the OS resolves a relative path
Abspath(p) ==
    IF StartsWith(p, "/") THEN p
    ELSE IF StripDot(p) \in {"", "."} THEN CWD
    ELSE CWD \o "/" \o StripDot(p)

(***************************************************************************)
(* The file system.                                                        *)
(***************************************************************************)
DirEntry == [kind |-> "dir", data |-> <<>>]

FileEntry(d) == [kind |-> "file", data |-> d]

Exists(f, p) == Abspath(p) \in DOMAIN f

IsDir(f, p) == Exists(f, p) /\ f[Abspath(p)].kind = "dir"

IsFile(f, p) == Exists(f, p) /\ f[Abspath(p)].kind = "file"

\* p and every directory above it
Ancestors(k) ==
    {SubSeq(k, 1, n - 1) : n \in {m \in Occurrences(k, "/") : m > 1}} \cup {k}

\* os.makedirs(p, exist_ok=True)
Makedirs(f, p) ==
    LET A == Ancestors(Abspath(p))
    IN  [q \in DOMAIN f \cup A |-> IF q \in DOMAIN f THEN f[q] ELSE DirEntry]

\* open(p, 'w') ... write: creates or replaces the file
WriteFile(f, p, d) ==
    [q \in DOMAIN f \cup {Abspath(p)} |->
        IF q = Abspath(p) THEN FileEntry(d) ELSE f[q]]

\* os.remove(p)
RemoveFile(f, p) == [q \in DOMAIN f \ {Abspath(p)} |-> f[q]]

\* os.rename(a, b): b is replaced when it exists
Rename(f, a, b) ==
    [q \in (DOMAIN f \ {Abspath(a)}) \cup {Abspath(b)} |->
        IF q = Abspath(b) THEN f[Abspath(a)] ELSE f[q]]

\* os.listdir(p): the names directly under p
ListDir(f, p) ==
    LET pre == Abspath(p) \o "/"
    IN  {SubSeq(q, Len(pre) + 1, Len(q)) :
            q \in {r \in DOMAIN f : /\ StartsWith(r, pre)
                                    /\ Len(r) > Len(pre)
                                    /\ ~Contains(SubSeq(r, Len(pre) + 1, Len(r)), "/")}}

EmptyFs == [q \in {CWD} |-> DirEntry]

(***************************************************************************)
(* scripts/blender_script.py: one invocation renders one asset.            *)
(***************************************************************************)
NUM_PRESET_VIEWS == 16

DEFAULT_NUM_IMAGES == 64

\* The accepted --object_path values the model draws from.
ObjectPathPool ==
    {"https://hf.co/glbs/000-001/u1.glb", "models/u1.glb", "models/u2.obj"}

\* The accepted --num_images values the model draws from (type=int).
NumImagesPool == {-1, 3, NUM_PRESET_VIEWS, DEFAULT_NUM_IMAGES}

\* --camera_dist (type=float, default 1.5), in tenths.
DEFAULT_CAMERA_DIST == 15

\* The accepted --camera_dist values the model draws from, in tenths.
CameraDistPool == {DEFAULT_CAMERA_DIST, 20}

\* The 16 preset azimuths, in micro-radians.
AZIMUTHS_16 ==
    << 0, 785398, 1570796, 2356194,
       3141593, 3926991, 4712389, 5497787,
       392699, 1178097, 1963495, 2748893,
       3534292, 4319690, 5105088, 5890486 >>

\* The 16 preset elevations, in micro-radians.
ELEVATIONS_16 == [k \in 1..16 |-> 523599]

\* math.cos on the preset angles, in thousandths.
Cos ==
    (0 :> 1000) @@ (785398 :> 707) @@ (1570796 :> 0) @@ (2356194 :> -707) @@
    (3141593 :> -1000) @@ (3926991 :> -707) @@ (4712389 :> 0) @@ (5497787 :> 707) @@
    (392699 :> 924) @@ (1178097 :> 383) @@ (1963495 :> -383) @@ (2748893 :> -924) @@
    (3534292 :> -924) @@ (4319690 :> -383) @@ (5105088 :> 383) @@ (5890486 :> 924) @@
    (523599 :> 866)

\* math.sin on the preset angles, in thousandths.
Sin ==
    (0 :> 0) @@ (785398 :> 707) @@ (1570796 :> 1000) @@ (2356194 :> 707) @@
    (3141593 :> 0) @@ (3926991 :> -707) @@ (4712389 :> -1000) @@ (5497787 :> -707) @@
    (392699 :> 383) @@ (1178097 :> 924) @@ (1963495 :> 924) @@ (2748893 :> 383) @@
    (3534292 :> -383) @@ (4319690 :> -924) @@ (5105088 :> -924) @@ (5890486 :> -383) @@
    (523599 :> 500)

\* get_camera_position(azimuth, elevation, distance): (x, y, z)
get_camera_position(azimuth, elevation, distance) ==
    << distance * Cos[azimuth] * Cos[elevation],
       distance * Sin[azimuth] * Cos[elevation],
       distance * Sin[elevation] >>

OUTPUT_DIR == "./views"

\* The marks that open a success and a failure message.
CHECK == "[v] "

CROSS == "[x] "

\* The frame number the host appends to a file-output node's slot path.
FRAME_SUFFIX == "0001"

IsRemote(object_path) == StartsWith(object_path, "http")

\* download_object's three names
DownloadUid(object_url) == SplitFirst(SplitLast(object_url, "/"), ".")

FinalLocalPath(object_url) == Join("tmp-objects", DownloadUid(object_url) \o ".glb")

\* Variant for sensitivity analysis: the download is written straight to the final path
TmpLocalPathInPlace(object_url) == FinalLocalPath(object_url)

TmpLocalPath(object_url) ==
    Join("tmp-objects", DownloadUid(object_url) \o ".glb.tmp")

\* A file the download has written `got` of `size` blocks of.
Blob(got) == [got |-> got, size |-> AssetBlocks]

Complete(entry) == entry.kind = "file" /\ entry.data.got = entry.data.size

\* save_images: object_uid and views_dir
ObjectUid(object_file) == SplitFirst(Basename(object_file), ".")

ViewsDir(object_file) == Join(Join(args.output_dir, ObjectUid(object_file)), "views")

\* num_views = min(args.num_images, 16)
NumViews(num_images) ==
    IF num_images < NUM_PRESET_VIEWS THEN num_images ELSE NUM_PRESET_VIEWS

RgbName(v) == Fmt03(v) \o "_rgb.jpg"

DepthSlot(v) == Fmt03(v) \o "_depth"

MaskSlot(v) == Fmt03(v) \o "_mask"

DepthName(v) == Fmt03(v) \o "_depth.png"

MaskName(v) == Fmt03(v) \o "_mask.jpg"

\* What one rendered image holds: the view slot it was written for and the
\* camera location the scene had when bpy.ops.render.render ran.
Image(v, cam) == [view |-> v, cam |-> cam]

\* bpy.ops.render.render(write_still=True) under the compositor graph: the
\* composite goes to scene.render.filepath, each file-output node writes
\* base_path/slot + frame number + extension.
HostRender(f, views_dir, v, cam) ==
    WriteFile(
        WriteFile(
            WriteFile(f, Join(views_dir, RgbName(v)), Image(v, cam)),
            Join(views_dir, DepthSlot(v) \o FRAME_SUFFIX \o ".png"), Image(v, cam)),
        Join(views_dir, MaskSlot(v) \o FRAME_SUFFIX \o ".jpg"), Image(v, cam))

\* if os.path.exists(temp): os.rename(temp, final)
RenameIfExists(f, temp, final) == IF Exists(f, temp) THEN Rename(f, temp, final) ELSE f

\* Variant for sensitivity analysis: the mask's rename is forgotten
RenameOutputsDepthOnly(f, views_dir, v) ==
    RenameIfExists(f,
        Join(views_dir, DepthSlot(v) \o FRAME_SUFFIX \o ".png"),
        Join(views_dir, DepthName(v)))

\* The body of the render loop for view v, after the render.
RenameOutputs(f, views_dir, v) ==
    RenameIfExists(
        RenameIfExists(f,
            Join(views_dir, DepthSlot(v) \o FRAME_SUFFIX \o ".png"),
            Join(views_dir, DepthName(v))),
        Join(views_dir, MaskSlot(v) \o FRAME_SUFFIX \o ".jpg"),
        Join(views_dir, MaskName(v)))

\* Variant for sensitivity analysis: the records are built with the default distance
CameraParamsDefaultDist(num_views, camera_dist) ==
    [v \in 1..num_views |->
        [view_id |-> v - 1,
         azimuth |-> AZIMUTHS_16[v],
         elevation |-> ELEVATIONS_16[v],
         camera_distance |-> DEFAULT_CAMERA_DIST,
         position |-> get_camera_position(AZIMUTHS_16[v], ELEVATIONS_16[v],
                                          DEFAULT_CAMERA_DIST)]]

\* save_camera_parameters_mvd: the list dumped to cameras.json (the pose
\* fields of each record; the intrinsics are the same in every record)
CameraParams(num_views, camera_dist) ==
    [v \in 1..num_views |->
        [view_id |-> v - 1,
         azimuth |-> AZIMUTHS_16[v],
         elevation |-> ELEVATIONS_16[v],
         camera_distance |-> camera_dist,
         position |-> get_camera_position(AZIMUTHS_16[v], ELEVATIONS_16[v],
                                          camera_dist)]]

\* Variant for sensitivity analysis: the loop steps over every other view
NextViewSkip(v) == v + 2

\* for i in range(num_views): the index after i
NextView(v) == v + 1

\* The host's scene when the tool starts: a camera, a light and one mesh.
DefaultScene == [meshes |-> 1, cam |-> <<0, 0, 0>>]

\* reset_scene: removes everything that is neither camera nor light
ResetScene(sc) == [sc EXCEPT !.meshes = 0]

\* except Exception as e: print the failure, the exception and the traceback
Except(e) ==
    out \o <<CROSS \o "Failed to render " \o args.object_path, e, "Traceback">>

\* Variant for sensitivity analysis: the handler rolls the invocation's output back
RaiseRollback(e) ==
    /\ pc' = "failed"
    /\ out' = Except(e)
    /\ fs' = fs0
    /\ UNCHANGED <<listVars, fs0, args, i, scene, local_path, stages, runs>>

Raise(e) ==
    /\ pc' = "failed"
    /\ out' = Except(e)
    /\ UNCHANGED <<listVars, fs, fs0, args, i, scene, local_path, stages, runs>>

\* The files that are on disk before any script has run: the local assets.
InitFs ==
    WriteFile(WriteFile(Makedirs(EmptyFs, "models"),
        "models/u1.glb", Blob(AssetBlocks)), "models/u2.obj", Blob(AssetBlocks))

InitRender ==
    /\ fs = InitFs
    /\ fs0 = InitFs
    /\ args = [object_path |-> "", output_dir |-> OUTPUT_DIR, num_images |-> 0,
               camera_dist |-> DEFAULT_CAMERA_DIST]
    /\ pc = "idle"
    /\ i = 0
    /\ scene = DefaultScene
    /\ local_path = ""
    /\ out = <<>>
    /\ stages = <<>>
    /\ runs = 0
    /\ given = args
    /\ written = <<>>
    /\ object_paths = <<>>
    /\ uids = <<>>
    /\ sampled_uids = <<>>
    /\ filtered_uids = <<>>
    /\ completed_uids = {}
    /\ all_uids = <<>>
    /\ train_uids = <<>>
    /\ test_uids = <<>>
    /\ stream = 0

\* The batch driver starts the tool on one asset: args = parser.parse_args(argv),
\* --camera_dist left at its default
Invoke ==
    /\ pc \in {"idle", "done", "failed"}
    /\ runs < MaxRuns
    /\ \E p \in ObjectPathPool, n \in NumImagesPool :
          args' = [object_path |-> p, output_dir |-> OUTPUT_DIR, num_images |-> n,
                   camera_dist |-> DEFAULT_CAMERA_DIST]
    /\ pc' = "main"
    /\ i' = 0
    /\ scene' = DefaultScene
    /\ local_path' = ""
    /\ out' = <<>>
    /\ stages' = <<>>
    /\ fs0' = fs
    /\ runs' = runs + 1
    /\ UNCHANGED <<listVars, fs>>

\* __main__: if args.object_path.startswith("http") ... else ...
MainStart ==
    /\ pc = "main"
    /\ IF IsRemote(args.object_path)
       THEN pc' = "download" /\ UNCHANGED local_path
       ELSE pc' = "save_images" /\ local_path' = args.object_path
    /\ UNCHANGED <<listVars, fs, fs0, args, i, scene, out, stages, runs>>

\* download_object: makedirs, then urlretrieve opens the temp file for writing
DownloadOpen ==
    /\ pc = "download"
    /\ fs' = WriteFile(Makedirs(fs, Dirname(TmpLocalPath(args.object_path))),
                       TmpLocalPath(args.object_path), Blob(0))
    /\ pc' = "retrieve"
    /\ UNCHANGED <<listVars, fs0, args, i, scene, local_path, out, stages, runs>>

\* urlretrieve copies one more block into the temp file
DownloadBlock ==
    /\ pc = "retrieve"
    /\ fs[Abspath(TmpLocalPath(args.object_path))].data.got < AssetBlocks
    /\ fs' = WriteFile(fs, TmpLocalPath(args.object_path),
                Blob(fs[Abspath(TmpLocalPath(args.object_path))].data.got + 1))
    /\ UNCHANGED <<listVars, fs0, args, pc, i, scene, local_path, out, stages, runs>>

\* Where download_object puts the finished download.
PublishDownload(f, object_url) ==
    Rename(f, TmpLocalPath(object_url), FinalLocalPath(object_url))

\* urlretrieve returns; os.rename(tmp_local_path, local_path); abspath
DownloadRename ==
    /\ pc = "retrieve"
    /\ fs[Abspath(TmpLocalPath(args.object_path))].data.got = AssetBlocks
    /\ fs' = PublishDownload(fs, args.object_path)
    /\ local_path' = Abspath(FinalLocalPath(args.object_path))
    /\ pc' = "save_images"
    /\ UNCHANGED <<listVars, fs0, args, i, scene, out, stages, runs>>

\* save_images: os.makedirs(args.output_dir); reset_scene()
SaveImagesReset ==
    /\ pc = "save_images"
    /\ fs' = Makedirs(fs, args.output_dir)
    /\ scene' = ResetScene(scene)
    /\ stages' = Append(stages, "Reset")
    /\ pc' = "load"
    /\ UNCHANGED <<listVars, fs0, args, i, local_path, out, runs>>

\* load_object: import by extension, or raise ValueError
LoadObject ==
    /\ pc = "load"
    /\ \/ /\ EndsWith(local_path, ".glb") \/ EndsWith(local_path, ".fbx")
          /\ \E m \in 0..1 : scene' = [scene EXCEPT !.meshes = @ + m]
          /\ stages' = Append(stages, "Load")
          /\ pc' = "normalize"
          /\ UNCHANGED <<listVars, fs, fs0, args, i, local_path, out, runs>>
       \/ /\ ~(EndsWith(local_path, ".glb") \/ EndsWith(local_path, ".fbx"))
          /\ Raise("Unsupported file type: " \o local_path)

\* normalize_scene: scene_bbox raises RuntimeError when no mesh is found
NormalizeScene ==
    /\ pc = "normalize"
    /\ \/ /\ scene.meshes > 0
          /\ stages' = Append(stages, "Normalize")
          /\ pc' = "light"
          /\ UNCHANGED <<listVars, fs, fs0, args, i, scene, local_path, out, runs>>
       \/ /\ scene.meshes = 0
          /\ Raise("no objects in scene to compute bounding box for")

\* add_lighting
AddLighting ==
    /\ pc = "light"
    /\ stages' = Append(stages, "Light")
    /\ pc' = "camera"
    /\ UNCHANGED <<listVars, fs, fs0, args, i, scene, local_path, out, runs>>

\* setup_camera and the empty the camera tracks
SetupCamera ==
    /\ pc = "camera"
    /\ stages' = Append(stages, "CameraRig")
    /\ pc' = "compositor"
    /\ UNCHANGED <<listVars, fs, fs0, args, i, scene, local_path, out, runs>>

\* os.makedirs(views_dir); setup_compositor_for_depth_and_mask(views_dir)
SetupCompositor ==
    /\ pc = "compositor"
    /\ fs' = Makedirs(fs, ViewsDir(local_path))
    /\ stages' = Append(stages, "Compositor")
    /\ i' = 0
    /\ pc' = "render"
    /\ UNCHANGED <<listVars, fs0, args, scene, local_path, out, runs>>

\* One iteration of `for i in range(num_views)`
RenderView ==
    /\ pc = "render"
    /\ i < NumViews(args.num_images)
    /\ scene' = [scene EXCEPT !.cam =
                     get_camera_position(AZIMUTHS_16[i + 1], ELEVATIONS_16[i + 1],
                                         args.camera_dist)]
    /\ fs' = RenameOutputs(HostRender(fs, ViewsDir(local_path), i, scene'.cam),
                           ViewsDir(local_path), i)
    /\ out' = Append(out, "Rendered view " \o Fmt03(i) \o "/"
                          \o ToString(NumViews(args.num_images)))
    /\ stages' = Append(stages, "Render(" \o ToString(i) \o ")")
    /\ i' = NextView(i)
    /\ UNCHANGED <<listVars, fs0, args, pc, local_path, runs>>

\* The loop is over: save_camera_parameters_mvd, then the completion message
SerializeCameraMetadata ==
    /\ pc = "render"
    /\ i >= NumViews(args.num_images)
    /\ fs' = WriteFile(fs, Join(ViewsDir(local_path), "cameras.json"),
                       CameraParams(NumViews(args.num_images), args.camera_dist))
    /\ scene' = IF NumViews(args.num_images) > 0
                THEN [scene EXCEPT !.cam =
                        CameraParams(NumViews(args.num_images), args.camera_dist)
                            [NumViews(args.num_images)].position]
                ELSE scene
    /\ out' = out \o
         << CHECK \o "Saved camera parameters for "
                  \o ToString(NumViews(args.num_images)) \o " views",
            CHECK \o "Completed " \o ObjectUid(local_path) \o ": "
                  \o ToString(NumViews(args.num_images)) \o " views (RGB + Depth + Mask)" >>
    /\ stages' = stages \o <<"SerializeCameraMetadata", "Done">>
    /\ pc' = "finish"
    /\ UNCHANGED <<listVars, fs0, args, i, local_path, runs>>

\* __main__ after save_images: the timing message, then os.remove of a download
Finish ==
    /\ pc = "finish"
    /\ out' = Append(out, CHECK \o "Finished " \o local_path)
    /\ fs' = IF IsRemote(args.object_path) THEN RemoveFile(fs, local_path) ELSE fs
    /\ pc' = "done"
    /\ UNCHANGED <<listVars, fs0, args, i, scene, local_path, stages, runs>>

\* The positions at which a call into the host tool or the network can raise.
HostStages ==
    {"download", "retrieve", "save_images", "load", "normalize", "light",
     "camera", "compositor", "render"}

\* A host or network call raises; the top-level handler reports it.
HostRaise ==
    /\ pc \in HostStages
    /\ Raise("host error")

NextRender ==
    \/ Invoke
    \/ MainStart
    \/ DownloadOpen
    \/ DownloadBlock
    \/ DownloadRename
    \/ SaveImagesReset
    \/ LoadObject
    \/ NormalizeScene
    \/ AddLighting
    \/ SetupCamera
    \/ SetupCompositor
    \/ RenderView
    \/ SerializeCameraMetadata
    \/ Finish
    \/ HostRaise

SpecRender == InitRender /\ [][NextRender]_vars

(***************************************************************************)
(* The camera pipeline on local assets with --camera_dist given.           *)
(***************************************************************************)
\* The local assets among the accepted --object_path values.
LocalAssetPool == {p \in ObjectPathPool : ~IsRemote(p)}

\* The tool is started on a local asset with an explicit --camera_dist:
\* args = parser.parse_args(argv)
InvokeCamera ==
    /\ pc \in {"idle", "done", "failed"}
    /\ runs < MaxRuns
    /\ \E p \in LocalAssetPool, n \in NumImagesPool, d \in CameraDistPool :
          args' = [object_path |-> p, output_dir |-> OUTPUT_DIR, num_images |-> n,
                   camera_dist |-> d]
    /\ pc' = "main"
    /\ i' = 0
    /\ scene' = DefaultScene
    /\ local_path' = ""
    /\ out' = <<>>
    /\ stages' = <<>>
    /\ fs0' = fs
    /\ runs' = runs + 1
    /\ UNCHANGED <<listVars, fs>>

NextCamera ==
    \/ InvokeCamera
    \/ MainStart
    \/ SaveImagesReset
    \/ LoadObject
    \/ NormalizeScene
    \/ AddLighting
    \/ SetupCamera
    \/ SetupCompositor
    \/ RenderView
    \/ SerializeCameraMetadata
    \/ Finish
    \/ HostRaise

SpecCamera == InitRender /\ [][NextCamera]_vars

(***************************************************************************)
(* scripts/download_objaverse.py: the render-completion scanner.           *)
(***************************************************************************)
COMPLETE_PNG_COUNT == 16

MaxPngFiles == 17

\* png_files = [f for f in os.listdir(item_path) if f.endswith('.png')]
PngFiles(f, item_path) == {n \in ListDir(f, item_path) : EndsWith(n, ".png")}

\* Variant for sensitivity analysis: the threshold is compared strictly
check_existing_renders_strict(f, output_dir) ==
    IF Exists(f, output_dir)
    THEN {item \in ListDir(f, output_dir) :
            /\ IsDir(f, Join(output_dir, item))
            /\ Cardinality(PngFiles(f, Join(output_dir, item))) > COMPLETE_PNG_COUNT
            /\ Exists(f, Join(Join(output_dir, item), "cameras.json"))}
    ELSE {}

\* check_existing_renders(output_dir): the set it returns
check_existing_renders(f, output_dir) ==
    IF Exists(f, output_dir)
    THEN {item \in ListDir(f, output_dir) :
            /\ IsDir(f, Join(output_dir, item))
            /\ Cardinality(PngFiles(f, Join(output_dir, item))) >= COMPLETE_PNG_COUNT
            /\ Exists(f, Join(Join(output_dir, item), "cameras.json"))}
    ELSE {}

\* The names the model puts under a scanned root, and the roots it scans.
ScanNames == {"u1", "u2"}

ScanRoots == {OUTPUT_DIR, "./renders"}

InitScan ==
    /\ fs = EmptyFs
    /\ fs0 = EmptyFs
    /\ args = [output_dir |-> OUTPUT_DIR]
    /\ pc = "idle"
    /\ i = 0
    /\ scene = DefaultScene
    /\ local_path = ""
    /\ out = <<>>
    /\ stages = <<>>
    /\ runs = 0
    /\ given = args
    /\ written = <<>>
    /\ object_paths = <<>>
    /\ uids = <<>>
    /\ sampled_uids = <<>>
    /\ filtered_uids = <<>>
    /\ completed_uids = {}
    /\ all_uids = <<>>
    /\ train_uids = <<>>
    /\ test_uids = <<>>
    /\ stream = 0

scanFrame == <<fs0, i, scene, local_path, stages, runs, given, written, object_paths,
               uids, sampled_uids, filtered_uids, all_uids, train_uids, test_uids,
               stream>>

\* Something creates the default output root, as a directory or as a file.
EnvMakeRoot ==
    /\ pc = "idle"
    /\ ~Exists(fs, OUTPUT_DIR)
    /\ \/ fs' = Makedirs(fs, OUTPUT_DIR)
       \/ fs' = WriteFile(fs, OUTPUT_DIR, <<>>)
    /\ UNCHANGED <<scanFrame, args, pc, out, completed_uids>>

\* Something creates an entry of the root, a directory or a plain file.
EnvMakeItem ==
    /\ pc = "idle"
    /\ IsDir(fs, OUTPUT_DIR)
    /\ \E name \in ScanNames :
          /\ ~Exists(fs, Join(OUTPUT_DIR, name))
          /\ \/ fs' = Makedirs(fs, Join(OUTPUT_DIR, name))
             \/ fs' = WriteFile(fs, Join(OUTPUT_DIR, name), <<>>)
    /\ UNCHANGED <<scanFrame, args, pc, out, completed_uids>>

\* Something writes one more .png file into an entry.
EnvAddPng ==
    /\ pc = "idle"
    /\ \E name \in ScanNames :
          LET d == Join(OUTPUT_DIR, name)
          IN  /\ IsDir(fs, d)
              /\ Cardinality(PngFiles(fs, d)) < MaxPngFiles
              /\ fs' = WriteFile(fs, Join(d, DepthName(Cardinality(PngFiles(fs, d)))),
                                 <<>>)
    /\ UNCHANGED <<scanFrame, args, pc, out, completed_uids>>

\* Something writes cameras.json or a .jpg file into an entry.
EnvAddOther ==
    /\ pc = "idle"
    /\ \E name \in ScanNames, file \in {"cameras.json", RgbName(0)} :
          LET d == Join(OUTPUT_DIR, name)
          IN  /\ IsDir(fs, d)
              /\ ~Exists(fs, Join(d, file))
              /\ fs' = WriteFile(fs, Join(d, file), <<>>)
    /\ UNCHANGED <<scanFrame, args, pc, out, completed_uids>>

\* One call of check_existing_renders(output_dir); os.listdir raises on a root
\* that exists and is no directory.
Scan ==
    /\ pc = "idle"
    /\ \E root \in ScanRoots :
          /\ args' = [output_dir |-> root]
          /\ \/ /\ ~Exists(fs, root) \/ IsDir(fs, root)
                /\ completed_uids' = check_existing_renders(fs, root)
                /\ out' = <<"Found " \o ToString(Cardinality(completed_uids'))
                            \o " already rendered objects">>
                /\ pc' = "scanned"
             \/ /\ IsFile(fs, root)
                /\ completed_uids' = {}
                /\ out' = <<"NotADirectoryError">>
                /\ pc' = "crashed"
    /\ UNCHANGED <<scanFrame, fs>>

\* The caller is done with the result.
ScanReturn ==
    /\ pc \in {"scanned", "crashed"}
    /\ pc' = "idle"
    /\ completed_uids' = {}
    /\ out' = <<>>
    /\ UNCHANGED <<scanFrame, fs, args>>

NextScan ==
    \/ EnvMakeRoot
    \/ EnvMakeItem
    \/ EnvAddPng
    \/ EnvAddOther
    \/ Scan
    \/ ScanReturn

SpecScan == InitScan /\ [][NextScan]_vars

(***************************************************************************)
(* scripts/download_objaverse.py: main and create_download_list.           *)
(***************************************************************************)
MaxListLen == 3

MaxBatch == 2

Uids == {"u1", "u2", "u3", "u4"}

\* The uid lists an upstream filter may have written.
UidLists ==
    UNION {{l \in [1..n -> Uids] : \A a, b \in 1..n : a # b => l[a] # l[b]} :
             n \in 0..MaxListLen}

CatalogPath(uid) == "glbs/000-001/" \o uid \o ".glb"

\* objaverse._load_object_paths(): every uid mapped, or u3 unknown to the catalog
PathTables ==
    {[u \in Uids |-> CatalogPath(u)], [u \in Uids \ {"u3"} |-> CatalogPath(u)]}

FilteredFiles == {"filtered.json", "uids.txt", "filtered_remaining.json"}

OUTPUT_NAME == "mvd_fusion"

\* json.dump and json.load of a list of strings
JsonDump(x) == [json |-> x]

JsonLoad(d) == d.json

\* str.replace(old, new): every occurrence, left to right
RECURSIVE Replace(_, _, _)
Replace(s, old, new) ==
    IF FirstIndex(s, old) = 0 THEN s
    ELSE SubSeq(s, 1, FirstIndex(s, old) - 1) \o new
         \o Replace(SubSeq(s, FirstIndex(s, old) + Len(old), Len(s)), old, new)

\* updated_file = args.filtered_file.replace('.json', '_remaining.json')
UpdatedFile(filtered_file) == Replace(filtered_file, ".json", "_remaining.json")

\* filtered_uids = [uid for uid in filtered_uids if uid not in completed_uids]
RECURSIVE Remaining(_, _)
Remaining(list, completed) ==
    IF list = <<>> THEN <<>>
    ELSE IF Head(list) \in completed THEN Remaining(Tail(list), completed)
    ELSE <<Head(list)>> \o Remaining(Tail(list), completed)

BASE_URL == "https://huggingface.co/datasets/allenai/objaverse/resolve/main/"

\* The loop over filtered_uids that fills download_urls
RECURSIVE DownloadUrls(_, _)
DownloadUrls(list, table) ==
    IF list = <<>> THEN <<>>
    ELSE IF Head(list) \in DOMAIN table
         THEN <<BASE_URL \o table[Head(list)]>> \o DownloadUrls(Tail(list), table)
         ELSE DownloadUrls(Tail(list), table)

BatchFile(output_file, k) ==
    "download_batches/" \o output_file \o "_batch_" \o ToString(k) \o ".json"

AllFile(output_file) == "download_batches/" \o output_file \o "_all.json"

\* Variant for sensitivity analysis: the slice ends one short
BatchSliceShort(urls, k, batch_size) ==
    SubSeq(urls, k + 1,
           IF k + batch_size - 1 < Len(urls) THEN k + batch_size - 1 ELSE Len(urls))

\* download_urls[i:i + batch_size]
BatchSlice(urls, k, batch_size) ==
    SubSeq(urls, k + 1, IF k + batch_size < Len(urls) THEN k + batch_size ELSE Len(urls))

\* for i in range(0, len(download_urls), batch_size): the offsets, in order
RECURSIVE BatchOffsets(_, _, _)
BatchOffsets(k, len, batch_size) ==
    IF k >= len THEN <<>> ELSE <<k>> \o BatchOffsets(k + batch_size, len, batch_size)

\* The batch files written by the loop, on top of f
RECURSIVE WriteBatches(_, _, _, _, _)
WriteBatches(f, offsets, urls, output_file, batch_size) ==
    IF offsets = <<>> THEN f
    ELSE WriteBatches(
            WriteFile(f, BatchFile(output_file, Head(offsets) \div batch_size),
                      JsonDump(BatchSlice(urls, Head(offsets), batch_size))),
            Tail(offsets), urls, output_file, batch_size)

\* ./views as the batcher finds it: u1 with 16 PNGs and cameras.json directly in
\* its directory, u2 as the camera pipeline lays an asset out.
RECURSIVE WithPngs(_, _, _)
WithPngs(f, dir, n) ==
    IF n = 0 THEN f
    ELSE WithPngs(WriteFile(f, Join(dir, DepthName(n - 1)), <<>>), dir, n - 1)

BatchFs ==
    WriteFile(
        WithPngs(
            WriteFile(
                WithPngs(Makedirs(Makedirs(EmptyFs, "./views/u1"), "./views/u2/views"),
                         "./views/u1", COMPLETE_PNG_COUNT),
                "./views/u1/cameras.json", <<>>),
            "./views/u2/views", COMPLETE_PNG_COUNT),
        "./views/u2/views/cameras.json", <<>>)

InitBatch ==
    /\ fs = BatchFs
    /\ fs0 = BatchFs
    /\ args = [filtered_file |-> "", output_name |-> OUTPUT_NAME, batch_size |-> 1,
               skip_completed |-> FALSE]
    /\ pc = "idle"
    /\ i = 0
    /\ scene = DefaultScene
    /\ local_path = ""
    /\ out = <<>>
    /\ stages = <<>>
    /\ runs = 0
    /\ given = args
    /\ written = <<>>
    /\ object_paths \in PathTables
    /\ uids = <<>>
    /\ sampled_uids = <<>>
    /\ filtered_uids = <<>>
    /\ completed_uids = {}
    /\ all_uids = <<>>
    /\ train_uids = <<>>
    /\ test_uids = <<>>
    /\ stream = 0

batchFrame == <<i, scene, local_path, stages, object_paths, uids, sampled_uids,
                all_uids, train_uids, test_uids, stream>>

\* The upstream filter writes its uid list, once.
PutFilteredFile ==
    /\ pc = "idle"
    /\ runs = 0
    /\ \A p \in FilteredFiles : ~Exists(fs, p)
    /\ \E p \in {"filtered.json", "uids.txt"}, l \in UidLists :
          fs' = WriteFile(fs, p, JsonDump(l))
    /\ UNCHANGED <<batchFrame, fs0, args, pc, out, runs, given, written,
                   filtered_uids, completed_uids>>

\* args = parser.parse_args()
BatchInvoke ==
    /\ pc \in {"idle", "done", "crashed"}
    /\ runs < MaxRuns
    /\ \E p \in FilteredFiles, b \in 1..MaxBatch, sk \in BOOLEAN :
          args' = [filtered_file |-> p, output_name |-> OUTPUT_NAME,
                   batch_size |-> b, skip_completed |-> sk]
    /\ given' = args'
    /\ fs0' = fs
    /\ written' = <<>>
    /\ out' = <<>>
    /\ filtered_uids' = <<>>
    /\ completed_uids' = {}
    /\ runs' = runs + 1
    /\ pc' = "main"
    /\ UNCHANGED <<batchFrame, fs>>

\* main without --skip_completed
NoSkip ==
    /\ pc = "main"
    /\ ~args.skip_completed
    /\ pc' = "create"
    /\ UNCHANGED <<batchFrame, fs, fs0, args, out, runs, given, written,
                   filtered_uids, completed_uids>>

\* main with --skip_completed: scan, load, prune, save the updated list
SkipCompleted ==
    /\ pc = "main"
    /\ args.skip_completed
    /\ completed_uids' = check_existing_renders(fs, OUTPUT_DIR)
    /\ \/ /\ IsFile(fs, args.filtered_file)
          /\ filtered_uids' =
                Remaining(JsonLoad(fs[Abspath(args.filtered_file)].data),
                          completed_uids')
          /\ fs' = WriteFile(fs, UpdatedFile(args.filtered_file),
                             JsonDump(filtered_uids'))
          /\ written' = Append(written, UpdatedFile(args.filtered_file))
          /\ out' = out \o
               <<"Found " \o ToString(Cardinality(completed_uids'))
                   \o " already rendered objects",
                 "Filtered to " \o ToString(Len(filtered_uids'))
                   \o " remaining objects (saved to "
                   \o UpdatedFile(args.filtered_file) \o ")">>
          /\ args' = [args EXCEPT !.filtered_file = UpdatedFile(args.filtered_file)]
          /\ pc' = "create"
       \/ /\ ~IsFile(fs, args.filtered_file)
          /\ out' = Append(out, "FileNotFoundError")
          /\ pc' = "crashed"
          /\ UNCHANGED <<fs, args, written, filtered_uids>>
    /\ UNCHANGED <<batchFrame, fs0, runs, given>>

\* create_download_list(args.filtered_file, args.output_name, args.batch_size)
CreateDownloadList ==
    /\ pc = "create"
    /\ \/ /\ IsFile(fs, args.filtered_file)
          /\ LET list == JsonLoad(fs[Abspath(args.filtered_file)].data)
                 urls == DownloadUrls(list, object_paths)
                 offs == BatchOffsets(0, Len(urls), args.batch_size)
             IN  /\ filtered_uids' = list
                 /\ fs' = WriteFile(
                       WriteBatches(Makedirs(fs, "download_batches"), offs, urls,
                                    args.output_name, args.batch_size),
                       AllFile(args.output_name), JsonDump(urls))
                 /\ written' = written
                       \o [k \in 1..Len(offs) |->
                             BatchFile(args.output_name, offs[k] \div args.batch_size)]
                       \o <<AllFile(args.output_name)>>
                 /\ out' = out \o
                       <<"Loaded " \o ToString(Len(list)) \o " filtered UIDs",
                         "Successfully mapped " \o ToString(Len(urls)) \o " UIDs to URLs",
                         "Missing objects: " \o ToString(Len(list) - Len(urls)),
                         "Created " \o ToString(Len(urls) \div args.batch_size + 1)
                            \o " batch files in 'download_batches/'">>
          /\ pc' = "done"
       \/ /\ ~IsFile(fs, args.filtered_file)
          /\ out' = Append(out, "FileNotFoundError")
          /\ pc' = "crashed"
          /\ UNCHANGED <<fs, written, filtered_uids>>
    /\ UNCHANGED <<batchFrame, fs0, args, runs, given, completed_uids>>

NextBatch ==
    \/ PutFilteredFile
    \/ BatchInvoke
    \/ NoSkip
    \/ SkipCompleted
    \/ CreateDownloadList

SpecBatch == InitBatch /\ [][NextBatch]_vars

(***************************************************************************)
(* scripts/subset_lists.py: the train/test splitter.                       *)
(***************************************************************************)
MaxDirs == 11

RENDERS_DIR == "/home/jayesh/objaverse-rendering/scripts/objaverse/renders/15k"

SPLIT_OUTPUT_DIR == "/home/jayesh/objaverse-rendering/scripts/objaverse/renders/subset_list"

\* The streams of draws the seeded generator may produce: draw number k, which
\* random.shuffle takes below k + 1, is (a * k + c) % (k + 1).
Streams == [a : 0..2, c : 0..2]

\* randbelow(k + 1) at step k of the shuffle
Draw(st, k) == (st.a * k + st.c) % (k + 1)

Swap(x, m, n) == [x EXCEPT ![m] = x[n], ![n] = x[m]]

\* random.shuffle(x): for k in reversed(range(1, len(x))): j = randbelow(k + 1);
\* x[k], x[j] = x[j], x[k]   (k, j counted from 0)
RECURSIVE ShuffleFrom(_, _, _)
ShuffleFrom(x, k, st) ==
    IF k < 1 THEN x ELSE ShuffleFrom(Swap(x, k + 1, Draw(st, k) + 1), k - 1, st)

Shuffle(x, st) == ShuffleFrom(x, Len(x) - 1, st)

\* Variant for sensitivity analysis: the split index is rounded to nearest
SplitIdxRounded(n) == (n * 9 + 5) \div 10

\* split_idx = int(len(all_uids) * 0.9): the double product n * 0.9 truncated;
\* for every n of the model it is the integer part of 9n/10
SplitIdx(n) == (n * 9) \div 10

\* all_uids[:split_idx] and all_uids[split_idx:]
TrainSlice(x) == SubSeq(x, 1, SplitIdx(Len(x)))

TestSlice(x) == SubSeq(x, SplitIdx(Len(x)) + 1, Len(x))

\* The renders directory with n asset directories and m plain files in it.
RECURSIVE WithDirs(_, _)
WithDirs(f, n) ==
    IF n = 0 THEN f
    ELSE WithDirs(Makedirs(f, Join(RENDERS_DIR, "d" \o Fmt03(n))), n - 1)

RendersFs(n, m) ==
    IF m = 0 THEN WithDirs(Makedirs(EmptyFs, RENDERS_DIR), n)
    ELSE WriteFile(WithDirs(Makedirs(EmptyFs, RENDERS_DIR), n),
                   Join(RENDERS_DIR, "render.log"), <<>>)

\* The order in which os.listdir reports the entries: some fixed enumeration of
\* the names, forwards or backwards.
EntryOrder(up) ==
    LET n == MaxDirs + 1
        names == [k \in 1..n |-> IF k = 1 THEN "render.log" ELSE "d" \o Fmt03(k - 1)]
    IN  IF up THEN names ELSE [k \in 1..n |-> names[n + 1 - k]]

\* os.listdir(RENDERS_DIR) as a list
Listing(f, up) ==
    SelectSeq(EntryOrder(up), LAMBDA name : name \in ListDir(f, RENDERS_DIR))

\* [d for d in os.listdir(RENDERS_DIR) if os.path.isdir(os.path.join(RENDERS_DIR, d))]
ListedDirs(f, up) ==
    SelectSeq(Listing(f, up), LAMBDA d : IsDir(f, Join(RENDERS_DIR, d)))

InitSplit ==
    /\ \E n \in 0..MaxDirs, m \in 0..1 : fs = RendersFs(n, m)
    /\ fs0 = fs
    /\ args = <<>>
    /\ pc = "start"
    /\ i = 0
    /\ scene = DefaultScene
    /\ local_path = ""
    /\ out = <<>>
    /\ stages = <<>>
    /\ runs = 0
    /\ given = args
    /\ written = <<>>
    /\ object_paths = <<>>
    /\ uids = <<>>
    /\ sampled_uids = <<>>
    /\ filtered_uids = <<>>
    /\ completed_uids = {}
    /\ all_uids = <<>>
    /\ train_uids = <<>>
    /\ test_uids = <<>>
    /\ stream \in Streams

splitFrame == <<fs0, args, i, scene, local_path, stages, runs, given, written,
                object_paths, uids, sampled_uids, filtered_uids, completed_uids,
                stream>>

\* all_uids = [d for d in os.listdir(RENDERS_DIR) if os.path.isdir(...)]
ListUids ==
    /\ pc = "start"
    /\ \E up \in BOOLEAN : all_uids' = ListedDirs(fs, up)
    /\ out' = Append(out, "Found " \o ToString(Len(all_uids')) \o " rendered objects")
    /\ pc' = "listed"
    /\ UNCHANGED <<splitFrame, fs, train_uids, test_uids>>

\* random.seed(42); random.shuffle(all_uids)
ShuffleUids ==
    /\ pc = "listed"
    /\ all_uids' = Shuffle(all_uids, stream)
    /\ pc' = "shuffled"
    /\ UNCHANGED <<splitFrame, fs, out, train_uids, test_uids>>

\* split_idx, train_uids, test_uids
SplitUids ==
    /\ pc = "shuffled"
    /\ train_uids' = TrainSlice(all_uids)
    /\ test_uids' = TestSlice(all_uids)
    /\ out' = Append(out, "Train: " \o ToString(Len(train_uids')) \o ", Test: "
                          \o ToString(Len(test_uids')))
    /\ pc' = "split"
    /\ UNCHANGED <<splitFrame, fs, all_uids>>

\* os.makedirs(OUTPUT_DIR); the two json.dump calls
WriteSubsetLists ==
    /\ pc = "split"
    /\ fs' = WriteFile(
                WriteFile(Makedirs(fs, SPLIT_OUTPUT_DIR),
                          SPLIT_OUTPUT_DIR \o "/15k_train.json", JsonDump(train_uids)),
                SPLIT_OUTPUT_DIR \o "/15k_test.json", JsonDump(test_uids))
    /\ out' = Append(out, CHECK \o "Created subset list files")
    /\ pc' = "done"
    /\ UNCHANGED <<splitFrame, all_uids, train_uids, test_uids>>

NextSplit ==
    \/ ListUids
    \/ ShuffleUids
    \/ SplitUids
    \/ WriteSubsetLists

SpecSplit == InitSplit /\ [][NextSplit]_vars

(***************************************************************************)
(* scripts/Discarded/simple_filter.py: the catalog filter.                 *)
(***************************************************************************)
MaxCatalog == 3

MIN_PATH_LEN == 10

EXCLUSION_TERMS ==
    {"test", "temp", "placeholder", "broken", "wip", "untextured", "lowpoly",
     "simple", "cube", "sphere", "plane", "default", "example"}

UPPER == "ABCDEFGHIJKLMNOPQRSTUVWXYZ"

LOWER == "abcdefghijklmnopqrstuvwxyz"

LowerChar(c) ==
    IF FirstIndex(UPPER, c) = 0 THEN c
    ELSE SubSeq(LOWER, FirstIndex(UPPER, c), FirstIndex(UPPER, c))

RECURSIVE LowerFrom(_, _)
LowerFrom(s, k) ==
    IF k > Len(s) THEN "" ELSE LowerChar(SubSeq(s, k, k)) \o LowerFrom(s, k + 1)

\* Variant for sensitivity analysis: the path is compared as it is
LowerSkipped(s) == s

\* str.lower()
Lower(s) == LowerFrom(s, 1)

\* object_paths.get(uid, "")
PathOf(table, uid) == IF uid \in DOMAIN table THEN table[uid] ELSE ""

\* The four `continue` tests of the filter loop, none taken
Passes(path) ==
    LET path_lower == Lower(path)
    IN  /\ path # ""
        /\ EndsWith(path, ".glb")
        /\ ~\E bad_term \in EXCLUSION_TERMS : Contains(path_lower, bad_term)
        /\ ~(Len(path) < MIN_PATH_LEN)

\* The catalog paths the model draws from.
PathPool ==
    {"glbs/000-001/a7f3.glb", "glbs/Test_model.glb", "glbs/000-001/a7f3.fbx",
     "x/a.glb", "", "glbs/000-023/sphere2.glb"}

\* Passes, evaluated once for each catalog path.
PassingPaths == {p \in PathPool : Passes(p)}

CatalogUids(n) == [k \in 1..n |-> "a" \o ToString(k)]

Range(x) == {x[k] : k \in 1..Len(x)}

\* The lists random.sample(uids, k) can return: k distinct positions, any order
Samples(x, k) ==
    {[m \in 1..k |-> x[pos[m]]] :
        pos \in {q \in [1..k -> 1..Len(x)] : \A a, b \in 1..k : a # b => q[a] # q[b]}}

InitFilter ==
    /\ fs = EmptyFs
    /\ fs0 = EmptyFs
    /\ args = [sample_size |-> 1000, output_file |-> "simple_filtered.json"]
    /\ pc = "idle"
    /\ i = 0
    /\ scene = DefaultScene
    /\ local_path = ""
    /\ out = <<>>
    /\ stages = <<>>
    /\ runs = 0
    /\ given = args
    /\ written = <<>>
    /\ \E n \in 0..MaxCatalog :
          /\ uids = CatalogUids(n)
          /\ \E D \in SUBSET Range(CatalogUids(n)) : object_paths \in [D -> PathPool]
    /\ sampled_uids = <<>>
    /\ filtered_uids = <<>>
    /\ completed_uids = {}
    /\ all_uids = <<>>
    /\ train_uids = <<>>
    /\ test_uids = <<>>
    /\ stream = 0

filterFrame == <<fs0, scene, local_path, stages, runs, given, written, object_paths,
                 uids, completed_uids, all_uids, train_uids, test_uids, stream>>

\* args = parser.parse_args(); simple_quality_filter(args.sample_size) up to
\* random.sample, which raises ValueError on a negative size
FilterSample ==
    /\ pc = "idle"
    /\ \E size \in -1..(MaxCatalog + 1) :
          LET k == IF size < Len(uids) THEN size ELSE Len(uids)
          IN  /\ args' = [args EXCEPT !.sample_size = size]
              /\ \/ /\ k >= 0
                    /\ sampled_uids' \in Samples(uids, k)
                    /\ out' = <<"Total UIDs available: " \o ToString(Len(uids))>>
                    /\ pc' = "filter"
                 \/ /\ k < 0
                    /\ sampled_uids' = <<>>
                    /\ out' = <<"ValueError">>
                    /\ pc' = "crashed"
    /\ filtered_uids' = <<>>
    /\ i' = 0
    /\ UNCHANGED <<filterFrame, fs>>

\* One iteration of `for uid in tqdm(sampled_uids)`
FilterStep ==
    /\ pc = "filter"
    /\ i < Len(sampled_uids)
    /\ filtered_uids' =
          IF PathOf(object_paths, sampled_uids[i + 1]) \in PassingPaths
          THEN Append(filtered_uids, sampled_uids[i + 1])
          ELSE filtered_uids
    /\ i' = i + 1
    /\ UNCHANGED <<filterFrame, fs, args, pc, out, sampled_uids>>

\* The loop is over: return filtered_uids; main dumps it to args.output_file
FilterDone ==
    /\ pc = "filter"
    /\ i = Len(sampled_uids)
    /\ fs' = WriteFile(fs, args.output_file, JsonDump(filtered_uids))
    /\ out' = out \o
          <<"Filtered: " \o ToString(Len(filtered_uids)) \o "/"
               \o ToString(Len(sampled_uids)) \o " objects passed",
            "Saved " \o ToString(Len(filtered_uids)) \o " filtered UIDs to "
               \o args.output_file>>
    /\ pc' = "done"
    /\ UNCHANGED <<filterFrame, args, i, sampled_uids, filtered_uids>>

NextFilter ==
    \/ FilterSample
    \/ FilterStep
    \/ FilterDone

SpecFilter == InitFilter /\ [][NextFilter]_vars

(***************************************************************************)
(* Properties of the camera pipeline (SpecRender).                         *)
(***************************************************************************)
ViewFileNames(n) ==
    UNION {{Fmt03(v) \o "_rgb.jpg", Fmt03(v) \o "_depth.png", Fmt03(v) \o "_mask.jpg"} :
              v \in 0..(n - 1)}

ViewIdsInOrder(records, n) ==
    /\ Len(records) = n
    /\ \A k \in 1..n : records[k].view_id = k - 1

CamerasFile == Join(ViewsDir(local_path), "cameras.json")

\* C1 as stated: whenever save_images has completed, the views directory holds
\* exactly the 16 RGB, 16 depth and 16 mask files 000..015 and one cameras.json
\* with 16 records whose view_id values are 0..15 in order.
C1_Exactly16Views ==
    pc = "finish" =>
        /\ ListDir(fs, ViewsDir(local_path)) = ViewFileNames(16) \cup {"cameras.json"}
        /\ ViewIdsInOrder(fs[Abspath(CamerasFile)].data, 16)

\* C1 amended: whenever save_images has completed, with n = min(num_images, 16)
\* (0 when negative), the views directory holds the RGB, depth and mask files of
\* the views 000..n-1, each rendered for its view, and one cameras.json with n
\* records whose view_id values are 0..n-1 in order, and nothing but these and
\* what was there before the run; n is 16 when num_images >= 16.
C1_NumViewsComplete ==
    pc = "finish" =>
        LET n == IF NumViews(args.num_images) < 0 THEN 0 ELSE NumViews(args.num_images)
            d == ViewsDir(local_path)
        IN  /\ ListDir(fs, d) =
                 ViewFileNames(n) \cup {"cameras.json"} \cup ListDir(fs0, d)
            /\ \A v \in 0..(n - 1) :
                 \A name \in {Fmt03(v) \o "_rgb.jpg", Fmt03(v) \o "_depth.png",
                              Fmt03(v) \o "_mask.jpg"} :
                    /\ IsFile(fs, Join(d, name))
                    /\ fs[Abspath(Join(d, name))].data.view = v
            /\ IsFile(fs, CamerasFile)
            /\ ViewIdsInOrder(fs[Abspath(CamerasFile)].data, n)
            /\ (args.num_images >= 16 => n = 16)
            /\ (args.num_images \in 0..16 => n = args.num_images)

C1_Witness ==
    /\ pc = "finish"
    /\ args.num_images = 3
    /\ runs = 1
    /\ ListDir(fs, ViewsDir(local_path)) = ViewFileNames(3) \cup {"cameras.json"}
    /\ Len(fs[Abspath(CamerasFile)].data) = 3

\* C2 as stated: a UID whose asset the pipeline rendered successfully (all 16
\* views and cameras.json) into the output root is in check_existing_renders of
\* that root, hence dropped from a pending list by --skip_completed; a UID whose
\* render was abandoned before cameras.json was written is not in that set.
C2_RenderedIsCompleted ==
    /\ (pc \in {"finish", "done"} /\ NumViews(args.num_images) = 16) =>
          /\ ObjectUid(local_path) \in check_existing_renders(fs, args.output_dir)
          /\ Remaining(<<ObjectUid(local_path)>>,
                       check_existing_renders(fs, args.output_dir)) = <<>>
    /\ (pc = "failed" /\ local_path # "" /\ ~Exists(fs, CamerasFile)) =>
          ObjectUid(local_path) \notin check_existing_renders(fs, args.output_dir)

IsSuccessMessage(m) == StartsWith(m, CHECK)

\* C6: when a stage raises, the handler reports the failure and nothing else
\* happens in the invocation: no file is written or deleted by the failing step
\* or after it, no stage runs, no success message has been or will be printed.
C6_FailureAbandonsAsset ==
    [][ /\ (pc # "failed" /\ pc' = "failed") =>
              /\ fs' = fs
              /\ stages' = stages
              /\ Len(out') = Len(out) + 3
              /\ out'[Len(out) + 1] = CROSS \o "Failed to render " \o args.object_path
              /\ \A k \in 1..Len(out') : ~IsSuccessMessage(out'[k])
        /\ pc = "failed" => (pc' = "main" /\ runs' = runs + 1 /\ fs' = fs)
      ]_vars

C6_Witness ==
    /\ pc = "failed"
    /\ runs = 1
    /\ i = 2
    /\ IsFile(fs, Join(ViewsDir(local_path), "001_mask.jpg"))
    /\ ~Exists(fs, CamerasFile)
    /\ stages[Len(stages)] = "Render(1)"

IsPrefix(s, t) == Len(s) <= Len(t) /\ SubSeq(t, 1, Len(s)) = s

StageOrder(n) ==
    <<"Reset", "Load", "Normalize", "Light", "CameraRig", "Compositor">>
    \o [k \in 1..n |-> "Render(" \o ToString(k - 1) \o ")"]
    \o <<"SerializeCameraMetadata", "Done">>

SameFile(f, g, p) ==
    /\ Exists(f, p) <=> Exists(g, p)
    /\ Exists(f, p) => f[Abspath(p)] = g[Abspath(p)]

\* C7: the stages of a run are a prefix of Reset, Load, Normalize, Light,
\* CameraRig, Compositor, Render(0), ..., Render(last), SerializeCameraMetadata,
\* Done (so each runs at most once and the views go up one by one), a completed
\* run went through all of them, the loop index is the number of renders done,
\* and cameras.json is untouched until the last view's render has finished.
C7_StageOrder ==
    LET n == IF NumViews(args.num_images) < 0 THEN 0 ELSE NumViews(args.num_images)
    IN  /\ IsPrefix(stages, StageOrder(n))
        /\ pc \in {"finish", "done"} => stages = StageOrder(n)
        /\ pc = "render" => stages = SubSeq(StageOrder(n), 1, 6 + i)
        /\ (Len(stages) < 6 + n + 1 /\ local_path # "") =>
              SameFile(fs, fs0, CamerasFile)

C7_Witness ==
    /\ pc = "done"
    /\ Len(stages) = 24
    /\ stages[22] = "Render(15)"
    /\ stages[23] = "SerializeCameraMetadata"

\* C10: the final path tmp-objects/{uid}.glb of a remote asset comes into
\* being only by renaming a temp file whose download is complete; whenever it
\* exists it holds a complete download, also after a download that failed
\* partway; and save_images starts on a complete file.
C10_AtomicDownload ==
    /\ [](\A url \in {p \in ObjectPathPool : IsRemote(p)} :
            /\ Exists(fs, FinalLocalPath(url)) => Complete(fs[Abspath(FinalLocalPath(url))])
            /\ (IsRemote(args.object_path) /\ pc \in {"save_images", "load"}) =>
                  /\ local_path = Abspath(FinalLocalPath(args.object_path))
                  /\ Exists(fs, local_path)
                  /\ Complete(fs[local_path]))
    /\ [][\A url \in {p \in ObjectPathPool : IsRemote(p)} :
            (~Exists(fs, FinalLocalPath(url)) /\ Exists(fs', FinalLocalPath(url))) =>
                /\ Exists(fs, TmpLocalPath(url))
                /\ Complete(fs[Abspath(TmpLocalPath(url))])
                /\ fs'[Abspath(FinalLocalPath(url))] = fs[Abspath(TmpLocalPath(url))]
                /\ ~Exists(fs', TmpLocalPath(url))]_vars

C10_Witness ==
    /\ pc = "failed"
    /\ IsRemote(args.object_path)
    /\ Exists(fs, TmpLocalPath(args.object_path))
    /\ fs[Abspath(TmpLocalPath(args.object_path))].data.got = 1
    /\ Exists(fs, FinalLocalPath(args.object_path))

(***************************************************************************)
(* Properties of the batcher and the scanner (SpecBatch, SpecScan).        *)
(***************************************************************************)
IsBatchPath(p) == Contains(p, "_batch_")

\* The batch files the current run has written, in the order written.
BatchesWritten == SelectSeq(written, IsBatchPath)

RECURSIVE ConcatFiles(_, _)
ConcatFiles(f, paths) ==
    IF paths = <<>> THEN <<>>
    ELSE JsonLoad(f[Abspath(Head(paths))].data) \o ConcatFiles(f, Tail(paths))

\* C3: after one run of create_download_list with batch size B >= 1, the batch
\* files it wrote are those with indexes 0..k-1, in that order, followed by
\* {name}_all.json; their contents concatenated in index order are the contents
\* of {name}_all.json, which are the URLs of the input's mapped uids; no batch
\* is empty or longer than B, and every batch but the last has exactly B URLs.
C3_BatchesPartitionAll ==
    pc = "done" =>
        LET W == BatchesWritten
            k == Len(W)
            B == args.batch_size
            allp == "download_batches/" \o args.output_name \o "_all.json"
            all == JsonLoad(fs[Abspath(allp)].data)
            size(j) == Len(JsonLoad(fs[Abspath(W[j])].data))
        IN  /\ written[Len(written)] = allp
            /\ \A j \in 1..k :
                  /\ W[j] = "download_batches/" \o args.output_name \o "_batch_"
                              \o ToString(j - 1) \o ".json"
                  /\ size(j) >= 1
                  /\ size(j) <= B
                  /\ j < k => size(j) = B
            /\ ConcatFiles(fs, W) = all
            /\ Len(all) = Cardinality({n \in 1..Len(filtered_uids) :
                                          filtered_uids[n] \in DOMAIN object_paths})
            /\ \A n \in 1..Len(all) : StartsWith(all[n], "https://huggingface.co/")

C3_Witness ==
    /\ pc = "done"
    /\ args.batch_size = 2
    /\ Len(BatchesWritten) = 2
    /\ Len(JsonLoad(fs[Abspath(BatchesWritten[2])].data)) = 1
    /\ Len(filtered_uids) = 3
    /\ Len(JsonLoad(fs[Abspath(AllFile(OUTPUT_NAME))].data)) = 3

\* Directly under directory key d of file system f.
ChildKeys(f, d) == {q \in DOMAIN f : Len(q) > Len(d) /\ Dirname(q) = d}

\* C5: check_existing_renders(root) returns exactly the names d of the
\* directories directly under root that directly hold at least 16 entries named
\* *.png and an entry cameras.json; a root that does not exist yields the empty
\* set, without an error.
C5_ScanExact ==
    /\ pc = "scanned" =>
          LET root == Abspath(args.output_dir)
              qualifies(d) ==
                  /\ d \in DOMAIN fs
                  /\ fs[d].kind = "dir"
                  /\ Cardinality({q \in ChildKeys(fs, d) : EndsWith(q, ".png")}) >= 16
                  /\ (d \o "/cameras.json") \in DOMAIN fs
          IN  /\ \A name \in completed_uids : qualifies(root \o "/" \o name)
              /\ \A d \in ChildKeys(fs, root) :
                    qualifies(d) => Basename(d) \in completed_uids
              /\ root \notin DOMAIN fs => completed_uids = {}
    /\ pc = "crashed" => Abspath(args.output_dir) \in DOMAIN fs

C5_Witness ==
    /\ pc = "scanned"
    /\ completed_uids = {"u1"}
    /\ Cardinality(PngFiles(fs, "./views/u1")) = 16
    /\ Cardinality(PngFiles(fs, "./views/u2")) = 15
    /\ Exists(fs, "./views/u2/cameras.json")

\* C8 as stated: after a run of main with --skip_completed, whatever
\* --filtered_file was given, the file at the given path still holds the given
\* uid list, the remaining file the run works on holds the given uids that are
\* not completed, in their order, and the URLs are resolved from that list.
C8_OriginalListKept ==
    (pc = "done" /\ given.skip_completed) =>
        LET orig == JsonLoad(fs0[Abspath(given.filtered_file)].data)
            rest == Remaining(orig, check_existing_renders(fs0, OUTPUT_DIR))
        IN  /\ SameFile(fs, fs0, given.filtered_file)
            /\ JsonLoad(fs[Abspath(args.filtered_file)].data) = rest
            /\ JsonLoad(fs[Abspath(AllFile(OUTPUT_NAME))].data)
                  = DownloadUrls(rest, object_paths)

(***************************************************************************)
(* Properties of the splitter and the filter (SpecSplit, SpecFilter).      *)
(***************************************************************************)
\* The immediate subdirectories of the renders root, read off the file system.
RenderSubdirs ==
    {Basename(d) : d \in {q \in ChildKeys(fs, RENDERS_DIR) : fs[q].kind = "dir"}}

\* C4: once the splitter has split, train and test have no uid in common,
\* together hold every immediate subdirectory of the renders root exactly once
\* and nothing else, and train has floor(0.9 * count) entries; the two files
\* written hold these lists.
C4_SplitPartition ==
    /\ pc \in {"split", "done"} =>
          LET both == train_uids \o test_uids
              n == Cardinality(RenderSubdirs)
          IN  /\ \A a \in 1..Len(train_uids), b \in 1..Len(test_uids) :
                    train_uids[a] # test_uids[b]
              /\ \A d \in RenderSubdirs :
                    Cardinality({k \in 1..Len(both) : both[k] = d}) = 1
              /\ \A k \in 1..Len(both) : both[k] \in RenderSubdirs
              /\ 10 * Len(train_uids) <= 9 * n
              /\ 9 * n < 10 * (Len(train_uids) + 1)
    /\ pc = "done" =>
          /\ JsonLoad(fs[SPLIT_OUTPUT_DIR \o "/15k_train.json"].data) = train_uids
          /\ JsonLoad(fs[SPLIT_OUTPUT_DIR \o "/15k_test.json"].data) = test_uids

C4_Witness ==
    /\ pc = "done"
    /\ Cardinality(RenderSubdirs) = 11
    /\ Len(train_uids) = 9
    /\ Len(test_uids) = 2
    /\ train_uids[1] # "d001"
    /\ train_uids[1] # "d011"
    /\ Exists(fs, Join(RENDERS_DIR, "render.log"))

RECURSIVE IsSubsequence(_, _)
IsSubsequence(s, t) ==
    IF s = <<>> THEN TRUE
    ELSE IF t = <<>> THEN FALSE
    ELSE IF Head(s) = Head(t) THEN IsSubsequence(Tail(s), Tail(t))
    ELSE IsSubsequence(s, Tail(t))

\* a and b are the same string up to the case of the letters (b in lower case).
EqualIgnoringCase(a, b) ==
    /\ Len(a) = Len(b)
    /\ \A k \in 1..Len(b) :
          \/ SubSeq(a, k, k) = SubSeq(b, k, k)
          \/ \E m \in 1..26 : /\ SubSeq(a, k, k) = SubSeq(UPPER, m, m)
                              /\ SubSeq(b, k, k) = SubSeq(LOWER, m, m)

\* The catalog paths that are at least 10 long, end with .glb and hold no
\* exclusion term, whatever the case of its letters.
AcceptablePaths ==
    {path \in PathPool :
        /\ Len(path) >= 10
        /\ SubSeq(path, Len(path) - 3, Len(path)) = ".glb"
        /\ \A term \in {"test", "temp", "placeholder", "broken", "wip", "untextured",
                        "lowpoly", "simple", "cube", "sphere", "plane", "default",
                        "example"} :
              \A a \in 1..Len(path) :
                 a + Len(term) - 1 <= Len(path) =>
                    ~EqualIgnoringCase(SubSeq(path, a, a + Len(term) - 1), term)}

\* C9: every uid of simple_quality_filter's output has a path-table entry that
\* is non-empty, ends with .glb, is at least 10 long and has no exclusion term
\* in it whatever the case of its letters; the output is a subsequence of the
\* sample, in sample order; a sampled uid without an entry is skipped and the
\* loop goes on, without an error.
C9_FilterSound ==
    /\ \A k \in 1..Len(filtered_uids) :
          /\ filtered_uids[k] \in DOMAIN object_paths
          /\ object_paths[filtered_uids[k]] # ""
          /\ object_paths[filtered_uids[k]] \in AcceptablePaths
    /\ IsSubsequence(filtered_uids, sampled_uids)
    /\ pc = "filter" => IsSubsequence(filtered_uids, SubSeq(sampled_uids, 1, i))
    /\ pc = "crashed" => args.sample_size < 0
    /\ pc = "done" =>
          /\ i = Len(sampled_uids)
          /\ JsonLoad(fs[Abspath(args.output_file)].data) = filtered_uids

C9_Witness ==
    /\ pc = "done"
    /\ Len(sampled_uids) = 3
    /\ sampled_uids[2] \notin DOMAIN object_paths
    /\ filtered_uids = <<sampled_uids[1], sampled_uids[3]>>
    /\ sampled_uids[1] = "a3"

(***************************************************************************)
(* C11: the records of cameras.json against the renders.                   *)
(***************************************************************************)
\* The views the current invocation has rendered, from its stage history.
RenderedViews ==
    {v \in 0..(NUM_PRESET_VIEWS - 1) :
        \E k \in 1..Len(stages) : stages[k] = "Render(" \o ToString(v) \o ")"}

\* The camera location the three files of view v were rendered from, if they
\* agree on one.
RenderedFrom(v, cam) ==
    \A name \in {Fmt03(v) \o "_rgb.jpg", Fmt03(v) \o "_depth.png",
                 Fmt03(v) \o "_mask.jpg"} :
        /\ IsFile(fs, Join(ViewsDir(local_path), name))
        /\ fs[Abspath(Join(ViewsDir(local_path), name))].data.cam = cam

\* C11: whenever save_images has completed, cameras.json has one record per
\* view rendered in the run; for every rendered view i the i-th record has
\* view_id = i, carries the preset azimuth and elevation of i and the run's
\* camera distance, and its position is both the position computed from these
\* three and the camera location from which the rgb, depth and mask files of
\* view i were rendered.
C11_RecordsMatchRenders ==
    pc = "finish" =>
        LET records == fs[Abspath(CamerasFile)].data
        IN  /\ IsFile(fs, CamerasFile)
            /\ Len(records) = Cardinality(RenderedViews)
            /\ RenderedViews = 0..(Len(records) - 1)
            /\ \A v \in RenderedViews :
                 LET r == records[v + 1]
                 IN  /\ r.view_id = v
                     /\ r.azimuth = AZIMUTHS_16[v + 1]
                     /\ r.elevation = ELEVATIONS_16[v + 1]
                     /\ r.camera_distance = args.camera_dist
                     /\ r.position =
                          get_camera_position(r.azimuth, r.elevation, r.camera_distance)
                     /\ RenderedFrom(v, r.position)

C11_Witness ==
    /\ pc = "finish"
    /\ args.camera_dist = 20
    /\ RenderedViews = 0..2
    /\ Len(fs[Abspath(CamerasFile)].data) = 3
    /\ fs[Abspath(CamerasFile)].data[2].position = <<20 * 707 * 866, 20 * 707 * 866, 20 * 500>>
    /\ RenderedFrom(1, <<20 * 707 * 866, 20 * 707 * 866, 20 * 500>>)

(***************************************************************************)
(* C12: the batch files on disk after reruns under one output name.        *)
(***************************************************************************)
\* The contents of the batch files of `name` present in f with an index in
\* k..last, concatenated in index order.
RECURSIVE ConcatBatchesOnDisk(_, _, _, _)
ConcatBatchesOnDisk(f, name, k, last) ==
    IF k > last THEN <<>>
    ELSE (IF IsFile(f, BatchFile(name, k))
          THEN JsonLoad(f[Abspath(BatchFile(name, k))].data)
          ELSE <<>>)
         \o ConcatBatchesOnDisk(f, name, k + 1, last)

\* C12 as stated: after any sequence of create_download_list runs under one
\* output name, the batch files of that name on disk, concatenated in index
\* order, are the contents of {name}_all.json as the latest run wrote it; no
\* batch file of an earlier run survives with stale content.
C12_NoStaleBatches ==
    pc = "done" =>
        ConcatBatchesOnDisk(fs, args.output_name, 0, MaxListLen)
            = JsonLoad(fs[Abspath(AllFile(args.output_name))].data)

====
